---- MODULE Spec2Model ----
(***************************************************************************)
(* The scheduled publish task queue of baseone: the tasks table, the       *)
(* /api/tasks handlers of server.py, server.py's worker_loop thread and    *)
(* worker.py's main loop, both running against the same SQLite table.      *)
(* Every SQL statement is followed by a commit in the source, so each      *)
(* statement is one atomic step; the code between two statements belongs   *)
(* to the step of the statement that follows it.                           *)
(***************************************************************************)
EXTENDS Naturals, Sequences, FiniteSets, TLC

VARIABLES
    tasks,      \* the tasks table
    clock,      \* the current time
    loop,       \* the local variables of each scheduler loop
    cancel,     \* the api_tasks_cancel request in flight
    reply,      \* the last HTTP response of the tasks API
    posts       \* history: per task id, the calls of posts().insert made for it

vars == <<tasks, clock, loop, cancel, reply, posts>>

(***************************************************************************)
(* Bounds of the model.                                                    *)
(***************************************************************************)
MaxTasks == 2
MaxTime == 1

(***************************************************************************)
(* Text.  A string is a sequence of tokens; " " is a whitespace character. *)
(* None is Python's None (a missing JSON key), NULL an SQL NULL column.    *)
(***************************************************************************)
None == <<"<None>">>
NULL == "<NULL>"

RECURSIVE LStrip(_)
LStrip(s) == IF s # <<>> /\ Head(s) = " " THEN LStrip(Tail(s)) ELSE s

RECURSIVE RStrip(_)
RStrip(s) ==
    IF s # <<>> /\ s[Len(s)] = " " THEN RStrip(SubSeq(s, 1, Len(s) - 1)) ELSE s

\* str.strip()
Strip(s) == RStrip(LStrip(s))

\* Python's `v or d`: None and the empty string are falsy
Or(v, d) == IF v = None \/ v = <<>> THEN d ELSE v

(***************************************************************************)
(* Timestamps.  The clock counts seconds from 2026-01-01T00:00:00Z.        *)
(***************************************************************************)
utc_now_iso == "2026-01-01T00:00:0" \o ToString(clock) \o "Z"

\* an instant after every time the clock reaches: the last hours of year 9999
FarFuture == MaxTime + 100

\* datetime.fromisoformat on the run_at texts the model uses: the instant,
\* whether the datetime carries a timezone, whether the instant is still a
\* datetime when moved to UTC (year <= 9999), and the text's rank in SQLite's
\* (bytewise) TEXT order.  Anything else raises ValueError.
IsoTable ==
    [t \in {"2026-01-01T00:00:00Z", "2026-01-01T00:00:01", "2026-01-01T00:00:01Z",
            "2026-01-01T09:00:00+09:00", "9999-12-31T23:59:59-05:00"} |->
        CASE t = "2026-01-01T00:00:00Z"
               -> [inst |-> 0, aware |-> TRUE, utc |-> TRUE, lex |-> 0]
          [] t = "2026-01-01T00:00:01"
               -> [inst |-> 1, aware |-> FALSE, utc |-> TRUE, lex |-> 1]
          [] t = "2026-01-01T00:00:01Z"
               -> [inst |-> 1, aware |-> TRUE, utc |-> TRUE, lex |-> 2]
          [] t = "2026-01-01T09:00:00+09:00"
               -> [inst |-> 0, aware |-> TRUE, utc |-> TRUE, lex |-> 3]
          [] t = "9999-12-31T23:59:59-05:00"
               -> [inst |-> FarFuture, aware |-> TRUE, utc |-> FALSE, lex |-> 4]]

\* does parse_iso raise on this text?
ParseRaises(s) ==
    LET t == Strip(s) IN ~(Len(t) = 1 /\ t[1] \in DOMAIN IsoTable)

\* server.py parse_iso: the datetime as fromisoformat gives it (maybe naive)
parse_iso(s) == IsoTable[Strip(s)[1]]

\* worker.py parse_iso raises where fromisoformat does, and OverflowError
\* where .astimezone(timezone.utc) leaves the range of datetime
worker_parse_raises(s) == ParseRaises(s) \/ ~parse_iso(s).utc

\* worker.py parse_iso: .astimezone(timezone.utc) reads a naive datetime as
\* local time (the host runs in UTC) and always yields an aware one
worker_parse_iso(s) == [IsoTable[Strip(s)[1]] EXCEPT !.aware = TRUE]

\* rank of a stored run_at text in ORDER BY run_at ("not-a-date" sorts last)
Lex(s) == IF Len(s) = 1 /\ s[1] \in DOMAIN IsoTable THEN IsoTable[s[1]].lex ELSE 5

(***************************************************************************)
(* The tasks table.  ids are AUTOINCREMENT and no row is ever deleted, so  *)
(* the row with id i is tasks[i].                                          *)
(***************************************************************************)
Ids == 1..Len(tasks)

\* the INSERT with the wrong status value: a row born running
NewRowRunning(platform, blog_id, blog_url, title, html, run_at, now) ==
    [id |-> Len(tasks) + 1, platform |-> platform, blog_id |-> blog_id,
     blog_url |-> blog_url, title |-> title, html |-> html, run_at |-> run_at,
     status |-> "running", created_at |-> now, updated_at |-> now,
     result_url |-> NULL, error |-> NULL]

\* the INSERT with a fixed id in place of the AUTOINCREMENT one
NewRowFirstId(platform, blog_id, blog_url, title, html, run_at, now) ==
    [id |-> 1, platform |-> platform, blog_id |-> blog_id,
     blog_url |-> blog_url, title |-> title, html |-> html, run_at |-> run_at,
     status |-> "pending", created_at |-> now, updated_at |-> now,
     result_url |-> NULL, error |-> NULL]

NewRow(platform, blog_id, blog_url, title, html, run_at, now) ==
    [id |-> Len(tasks) + 1, platform |-> platform, blog_id |-> blog_id,
     blog_url |-> blog_url, title |-> title, html |-> html, run_at |-> run_at,
     status |-> "pending", created_at |-> now, updated_at |-> now,
     result_url |-> NULL, error |-> NULL]

\* the first n elements of a sequence (SQL LIMIT n)
Limit(s, n) == SubSeq(s, 1, IF Len(s) < n THEN Len(s) ELSE n)

\* the rows of S as a sequence ascending in key[r.id], ties by ascending id:
\* the k-th element is the row that k - 1 rows of S come before
SortBy(S, key) ==
    LET Before(q, r) == \/ key[q.id] < key[r.id]
                        \/ (key[q.id] = key[r.id] /\ q.id < r.id)
    IN  [k \in 1..Cardinality(S) |->
            CHOOSE r \in S : Cardinality({q \in S : Before(q, r)}) = k - 1]

\* the scan that also picks up running rows
PendingOrRunningRows ==
    {tasks[i] : i \in {j \in Ids : tasks[j].status \in {"pending", "running"}}}

PendingRows == {tasks[i] : i \in {j \in Ids : tasks[j].status = "pending"}}

(***************************************************************************)
(* POST /api/tasks/add                                                     *)
(***************************************************************************)
Err(code, msg) == [ok |-> FALSE, code |-> code, msg |-> msg]
Ok(id) == [ok |-> TRUE, code |-> 200, id |-> id]

\* api_tasks_add without the try around parse_iso(run_at): any non-empty
\* run_at is stored
api_tasks_add_unparsed(data) ==
    LET platform == Strip(Or(data.platform, <<"blogspot">>))
        blog_id == Strip(Or(data.blog_id, <<>>))
        blog_url == Strip(Or(data.blog_url, <<>>))
        title == Strip(Or(data.title, <<>>))
        html == Strip(Or(data.html, <<>>))
        run_at == Strip(Or(data.run_at, <<>>))
    IN  /\ IF title = <<>> \/ html = <<>> \/ run_at = <<>>
           THEN /\ reply' = Err(400, "title, html, run_at required")
                /\ UNCHANGED tasks
           ELSE /\ Len(tasks) < MaxTasks
                /\ tasks' = Append(tasks, NewRow(platform, blog_id, blog_url, title,
                                                 html, run_at, utc_now_iso))
                /\ reply' = Ok(Len(tasks) + 1)
        /\ UNCHANGED <<posts, clock, loop, cancel>>

api_tasks_add(data) ==
    LET platform == Strip(Or(data.platform, <<"blogspot">>))
        blog_id == Strip(Or(data.blog_id, <<>>))
        blog_url == Strip(Or(data.blog_url, <<>>))
        title == Strip(Or(data.title, <<>>))
        html == Strip(Or(data.html, <<>>))
        run_at == Strip(Or(data.run_at, <<>>))
    IN  /\ IF title = <<>> \/ html = <<>> \/ run_at = <<>>
           THEN /\ reply' = Err(400, "title, html, run_at required")
                /\ UNCHANGED tasks
           ELSE IF ParseRaises(run_at)
           THEN /\ reply' = Err(400, "run_at format")
                /\ UNCHANGED tasks
           ELSE /\ Len(tasks) < MaxTasks
                /\ tasks' = Append(tasks, NewRow(platform, blog_id, blog_url, title,
                                                 html, run_at, utc_now_iso))
                /\ reply' = Ok(Len(tasks) + 1)
        /\ UNCHANGED <<posts, clock, loop, cancel>>

(***************************************************************************)
(* The scheduler loops.  loop[p] holds the local variables of loop p:      *)
(* where it is (pc), the rows its SELECT fetched, the position of its for  *)
(* loop in them, the time it read, and the outcome of the publish call.    *)
(***************************************************************************)
Asleep == [pc |-> "sleep", rows |-> <<>>, idx |-> 0, now_dt |-> 0, res |-> <<>>]

\* UPDATE tasks SET status=?, updated_at=? WHERE id=?
UpdateStatus(id, status) ==
    [tasks EXCEPT ![id].status = status, ![id].updated_at = utc_now_iso]

\* the UPDATE of the outcome that also empties the html column
UpdateOutcomeDroppingHtml(id, status, result_url, error) ==
    [tasks EXCEPT ![id].status = status, ![id].result_url = result_url,
                  ![id].error = error, ![id].updated_at = utc_now_iso,
                  ![id].html = <<>>]

\* UPDATE tasks SET status=?, result_url=?, error=?, updated_at=? WHERE id=?
UpdateOutcome(id, status, result_url, error) ==
    [tasks EXCEPT ![id].status = status, ![id].result_url = result_url,
                  ![id].error = error, ![id].updated_at = utc_now_iso]

\* what posts().insert(...).execute() does in the model: return the created
\* post with its url, or raise
Responses ==
    {[kind |-> "url", url |-> "http://x/1"],
     [kind |-> "raise", msg |-> "network error"]}

\* created.get("url") or ""
UrlOf(resp) == IF resp.kind = "url" THEN resp.url ELSE ""

\* the call of the Publisher for task id
Insert(id) == [posts EXCEPT ![id] = @ + 1]

(***************************************************************************)
(* server.py worker_loop                                                   *)
(***************************************************************************)
BatchLimit == 10

\* SELECT * FROM tasks WHERE status='pending' ORDER BY id ASC LIMIT 10
SelectPendingById ==
    Limit(SortBy(PendingRows, [i \in Ids |-> i]), BatchLimit)

worker_loop_select ==
    /\ loop["server"].pc = "sleep"
    /\ loop' = [loop EXCEPT !["server"] =
                    [pc |-> "for", rows |-> SelectPendingById, idx |-> 1,
                     now_dt |-> clock, res |-> <<>>]]
    /\ UNCHANGED <<tasks, posts, clock, cancel, reply>>

\* one turn of `for r in rows` up to the UPDATE to running; a naive run_at
\* makes `run_at_dt > now_dt` raise TypeError, which the outer except absorbs
worker_loop_for ==
    LET me == loop["server"] IN
    /\ me.pc = "for"
    /\ IF me.idx > Len(me.rows)
       THEN /\ loop' = [loop EXCEPT !["server"] = Asleep]
            /\ UNCHANGED tasks
       ELSE LET r == me.rows[me.idx]
                raised == ParseRaises(r.run_at)
                run_at_dt == IF raised THEN [inst |-> me.now_dt, aware |-> TRUE]
                             ELSE parse_iso(r.run_at)
            IN  IF ~run_at_dt.aware
                THEN /\ loop' = [loop EXCEPT !["server"] = Asleep]
                     /\ UNCHANGED tasks
                ELSE IF run_at_dt.inst > me.now_dt
                THEN /\ loop' = [loop EXCEPT !["server"].idx = @ + 1]
                     /\ UNCHANGED tasks
                ELSE /\ tasks' = UpdateStatus(r.id, "running")
                     /\ loop' = [loop EXCEPT !["server"].pc = "execute"]
    /\ UNCHANGED <<posts, clock, cancel, reply>>

\* run_task_publish(r): (success, result_url, error_message), and whether
\* posts().insert was called
\* run_task_publish without `if not blog_id`
run_task_publish_unchecked(r, hasToken, resp) ==
    IF r.platform # <<"blogspot">>
    THEN [called |-> FALSE, res |-> <<FALSE, "", "Unsupported platform">>]
    ELSE IF ~hasToken
    THEN [called |-> FALSE, res |-> <<FALSE, "", "OAuth not connected">>]
    ELSE IF resp.kind = "raise"
    THEN [called |-> TRUE, res |-> <<FALSE, "", "Blogger post error: " \o resp.msg>>]
    ELSE [called |-> TRUE, res |-> <<TRUE, UrlOf(resp), "">>]

run_task_publish(r, hasToken, resp) ==
    IF r.platform # <<"blogspot">>
    THEN [called |-> FALSE, res |-> <<FALSE, "", "Unsupported platform">>]
    ELSE IF ~hasToken
    THEN [called |-> FALSE, res |-> <<FALSE, "", "OAuth not connected">>]
    ELSE IF r.blog_id = <<>>
    THEN [called |-> FALSE, res |-> <<FALSE, "", "blog_id missing">>]
    ELSE IF resp.kind = "raise"
    THEN [called |-> TRUE, res |-> <<FALSE, "", "Blogger post error: " \o resp.msg>>]
    ELSE [called |-> TRUE, res |-> <<TRUE, UrlOf(resp), "">>]

worker_loop_execute ==
    LET me == loop["server"] IN
    /\ me.pc = "execute"
    /\ \E hasToken \in BOOLEAN, resp \in Responses :
         LET out == run_task_publish(me.rows[me.idx], hasToken, resp) IN
         /\ posts' = IF out.called THEN Insert(me.rows[me.idx].id) ELSE posts
         /\ loop' = [loop EXCEPT !["server"].pc = "finish", !["server"].res = out.res]
    /\ UNCHANGED <<tasks, clock, cancel, reply>>

\* worker_loop's last step with a failed publish not written to the table
worker_loop_finish_unrecorded ==
    LET me == loop["server"]
        id == me.rows[me.idx].id
    IN
    /\ me.pc = "finish"
    /\ tasks' = IF me.res[1]
                THEN UpdateOutcome(id, "ok", me.res[2], NULL)
                ELSE tasks
    /\ loop' = [loop EXCEPT !["server"].pc = "for", !["server"].idx = @ + 1,
                            !["server"].res = <<>>]
    /\ UNCHANGED <<posts, clock, cancel, reply>>

worker_loop_finish ==
    LET me == loop["server"]
        id == me.rows[me.idx].id
    IN
    /\ me.pc = "finish"
    /\ tasks' = IF me.res[1]
                THEN UpdateOutcome(id, "ok", me.res[2], NULL)
                ELSE UpdateOutcome(id, "err", "", me.res[3])
    /\ loop' = [loop EXCEPT !["server"].pc = "for", !["server"].idx = @ + 1,
                            !["server"].res = <<>>]
    /\ UNCHANGED <<posts, clock, cancel, reply>>

(***************************************************************************)
(* worker.py main                                                          *)
(***************************************************************************)
WorkerLimit == 10

\* fetch_due_tasks(conn, limit): SELECT * FROM tasks WHERE status='pending'
\* ORDER BY run_at ASC LIMIT ?, then the rows whose run_at is not after now
\* (or on which parse_iso raises)
IsDue(r) == worker_parse_raises(r.run_at) \/ worker_parse_iso(r.run_at).inst <= clock

fetch_due_tasks(limit) ==
    SelectSeq(Limit(SortBy(PendingRows, [i \in Ids |-> Lex(tasks[i].run_at)]), limit),
              IsDue)

\* mark(conn, task_id, status, result_url, error)
mark(task_id, status, result_url, error) ==
    UpdateOutcome(task_id, status, result_url, error)

\* fetch the due rows and build the Blogger client; nothing due: sleep again
main_fetch ==
    LET due == fetch_due_tasks(WorkerLimit) IN
    /\ loop["worker"].pc = "sleep"
    /\ due # <<>>
    /\ \E hasToken \in BOOLEAN :
         loop' = [loop EXCEPT !["worker"] =
                     [pc |-> IF hasToken THEN "for" ELSE "noauth", rows |-> due,
                      idx |-> 1, now_dt |-> clock, res |-> <<>>]]
    /\ UNCHANGED <<tasks, posts, clock, cancel, reply>>

\* `if not svc: for r in due: mark(conn, r["id"], "err", ...)`
main_noauth ==
    LET me == loop["worker"] IN
    /\ me.pc = "noauth"
    /\ IF me.idx > Len(me.rows)
       THEN /\ loop' = [loop EXCEPT !["worker"] = Asleep]
            /\ UNCHANGED tasks
       ELSE /\ tasks' = mark(me.rows[me.idx].id, "err", "",
                             "OAuth not connected (token missing)")
            /\ loop' = [loop EXCEPT !["worker"].idx = @ + 1]
    /\ UNCHANGED <<posts, clock, cancel, reply>>

\* one turn of `for r in due` up to mark(conn, task_id, "running")
main_for ==
    LET me == loop["worker"] IN
    /\ me.pc = "for"
    /\ IF me.idx > Len(me.rows)
       THEN /\ loop' = [loop EXCEPT !["worker"] = Asleep]
            /\ UNCHANGED tasks
       ELSE LET r == me.rows[me.idx]
                blog_id == Strip(Or(r.blog_id, <<>>))
                title == Strip(Or(r.title, <<>>))
                html == Strip(Or(r.html, <<>>))
            IN  IF blog_id = <<>> \/ title = <<>> \/ html = <<>>
                THEN /\ tasks' = mark(r.id, "err", "", "missing blog_id/title/html")
                     /\ loop' = [loop EXCEPT !["worker"].idx = @ + 1]
                ELSE /\ tasks' = mark(r.id, "running", "", "")
                     /\ loop' = [loop EXCEPT !["worker"].pc = "execute"]
    /\ UNCHANGED <<posts, clock, cancel, reply>>

\* svc.posts().insert(...).execute() inside the try
main_execute ==
    LET me == loop["worker"] IN
    /\ me.pc = "execute"
    /\ \E resp \in Responses :
         loop' = [loop EXCEPT !["worker"].pc = "finish",
                     !["worker"].res = IF resp.kind = "raise"
                                       THEN <<FALSE, "", resp.msg>>
                                       ELSE <<TRUE, UrlOf(resp), "">>]
    /\ posts' = Insert(me.rows[me.idx].id)
    /\ UNCHANGED <<tasks, clock, cancel, reply>>

main_finish ==
    LET me == loop["worker"]
        id == me.rows[me.idx].id
    IN
    /\ me.pc = "finish"
    /\ tasks' = IF me.res[1]
                THEN mark(id, "ok", me.res[2], "")
                ELSE mark(id, "err", "", me.res[3])
    /\ loop' = [loop EXCEPT !["worker"].pc = "for", !["worker"].idx = @ + 1,
                            !["worker"].res = <<>>]
    /\ UNCHANGED <<posts, clock, cancel, reply>>

(***************************************************************************)
(* POST /api/tasks/cancel/<task_id>: the SELECT of the status, then, for   *)
(* a pending task, the UPDATE to canceled.                                 *)
(***************************************************************************)
\* api_tasks_cancel without the look at the status: every row that exists
\* goes on to the UPDATE
api_tasks_cancel_select_any(task_id) ==
    /\ cancel.pc = "idle"
    /\ IF task_id \notin Ids
       THEN /\ reply' = Err(404, "task not found")
            /\ UNCHANGED cancel
       ELSE /\ cancel' = [pc |-> "update", id |-> task_id]
            /\ UNCHANGED reply
    /\ UNCHANGED <<tasks, posts, clock, loop>>

api_tasks_cancel_select(task_id) ==
    /\ cancel.pc = "idle"
    /\ IF task_id \notin Ids
       THEN /\ reply' = Err(404, "task not found")
            /\ UNCHANGED cancel
       ELSE IF tasks[task_id].status # "pending"
       THEN /\ reply' = Err(400, "only pending can be canceled")
            /\ UNCHANGED cancel
       ELSE /\ cancel' = [pc |-> "update", id |-> task_id]
            /\ UNCHANGED reply
    /\ UNCHANGED <<tasks, posts, clock, loop>>

api_tasks_cancel_update ==
    /\ cancel.pc = "update"
    /\ tasks' = UpdateStatus(cancel.id, "canceled")
    /\ reply' = Ok(cancel.id)
    /\ cancel' = [pc |-> "idle", id |-> 0]
    /\ UNCHANGED <<posts, clock, loop>>

(***************************************************************************)
(* GET /api/tasks/list                                                     *)
(***************************************************************************)
ListLimit == 200

\* the columns the SELECT names (html is not among them)
Item(r) ==
    [id |-> r.id, platform |-> r.platform, blog_id |-> r.blog_id,
     blog_url |-> r.blog_url, title |-> r.title, run_at |-> r.run_at,
     status |-> r.status, result_url |-> r.result_url, error |-> r.error,
     created_at |-> r.created_at, updated_at |-> r.updated_at]

\* the listing in ascending id order: the oldest rows first
ListItemsOldest ==
    Limit([k \in 1..Len(tasks) |-> Item(tasks[k])], ListLimit)

\* SELECT ... FROM tasks ORDER BY id DESC LIMIT 200
ListItems ==
    Limit([k \in 1..Len(tasks) |-> Item(tasks[Len(tasks) + 1 - k])], ListLimit)

api_tasks_list ==
    /\ reply' = [ok |-> TRUE, code |-> 200, items |-> ListItems]
    /\ UNCHANGED <<tasks, posts, clock, loop, cancel>>

(***************************************************************************)
(* Time passes.                                                            *)
(***************************************************************************)
Tick ==
    /\ clock < MaxTime
    /\ clock' = clock + 1
    /\ UNCHANGED <<tasks, posts, loop, cancel, reply>>

(***************************************************************************)
(* The system: the web process's handlers and the two scheduler loops.     *)
(***************************************************************************)
Init ==
    /\ tasks = <<>>
    /\ posts = [i \in 1..MaxTasks |-> 0]
    /\ clock = 0
    /\ loop = [p \in {"server", "worker"} |-> Asleep]
    /\ cancel = [pc |-> "idle", id |-> 0]
    /\ reply = [ok |-> TRUE, code |-> 0]

\* request bodies of /api/tasks/add: well-formed ones, due now or later
Requests ==
    [platform : {None}, blog_id : {<<"B1">>}, blog_url : {None},
     title : {<<"T">>}, html : {<<"H">>},
     run_at : {<<"2026-01-01T00:00:00Z">>, <<"2026-01-01T00:00:01Z">>}]

ServerLoop ==
    \/ worker_loop_select
    \/ worker_loop_for
    \/ worker_loop_execute
    \/ worker_loop_finish

WorkerLoop ==
    \/ main_fetch
    \/ main_noauth
    \/ main_for
    \/ main_execute
    \/ main_finish

Next ==
    \/ \E data \in Requests : api_tasks_add(data)
    \/ \E task_id \in 1..MaxTasks : api_tasks_cancel_select(task_id)
    \/ api_tasks_cancel_update
    \/ Tick
    \/ ServerLoop
    \/ WorkerLoop

Spec == Init /\ [][Next]_vars

(***************************************************************************)
(* The web process alone (TASK_WORKER=0, no worker.py running), under      *)
(* request bodies of every shape: well-formed, a key missing, a value      *)
(* blank or padded, run_at texts that do and do not parse.                 *)
(***************************************************************************)
WellFormed ==
    [platform |-> None, blog_id |-> <<"B1">>, blog_url |-> None,
     title |-> <<" ", "T">>, html |-> <<"H", " ">>,
     run_at |-> <<"2026-01-01T00:00:01Z", " ">>]

ApiRequests ==
    {WellFormed}
    \cup {[WellFormed EXCEPT !.blog_id = v] : v \in {None, <<" ">>}}
    \cup {[WellFormed EXCEPT !.title = v] : v \in {None, <<" ">>}}
    \cup {[WellFormed EXCEPT !.html = v] : v \in {None, <<>>}}
    \cup {[WellFormed EXCEPT !.run_at = v] :
             v \in {None, <<" ">>, <<"not-a-date">>, <<"2026-01-01T00:00:01">>}}

ApiNext ==
    \/ \E data \in ApiRequests : api_tasks_add(data)
    \/ \E task_id \in 1..MaxTasks : api_tasks_cancel_select(task_id)
    \/ api_tasks_cancel_update
    \/ api_tasks_list
    \/ Tick

ApiSpec == Init /\ [][ApiNext]_vars

(***************************************************************************)
(* The web process with its own worker_loop thread (TASK_WORKER=1, the     *)
(* default) and no worker.py.  The thread is a `while True` loop that the  *)
(* interpreter keeps scheduling, so its steps are weakly fair; the         *)
(* requests and the clock are not.                                         *)
(***************************************************************************)
ServerRequests ==
    [platform : {None}, blog_id : {<<"B1">>}, blog_url : {None},
     title : {<<"T">>}, html : {<<"H">>},
     run_at : {<<"2026-01-01T00:00:00Z">>, <<"2026-01-01T00:00:01">>}]

ServerNext ==
    \/ \E data \in ServerRequests : api_tasks_add(data)
    \/ \E task_id \in 1..MaxTasks : api_tasks_cancel_select(task_id)
    \/ api_tasks_cancel_update
    \/ Tick
    \/ ServerLoop

ServerSpec == Init /\ [][ServerNext]_vars /\ WF_vars(ServerLoop)

(***************************************************************************)
(* The listing over tables of every size up to one row more than the       *)
(* listing's limit.  The table starts with n rows as api_tasks_add stored  *)
(* them; the web process then lists, and cancels among the first rows.     *)
(***************************************************************************)
ListRows == 201

\* row i as api_tasks_add stored it at 2026-01-01T00:00:00Z
StoredRow(i) ==
    [id |-> i, platform |-> <<"blogspot">>, blog_id |-> <<"B1">>,
     blog_url |-> <<>>, title |-> <<"T">>, html |-> <<"H">>,
     run_at |-> <<"2026-01-01T00:00:01Z">>, status |-> "pending",
     created_at |-> "2026-01-01T00:00:00Z", updated_at |-> "2026-01-01T00:00:00Z",
     result_url |-> NULL, error |-> NULL]

ListInit ==
    /\ tasks \in {[i \in 1..n |-> StoredRow(i)] : n \in 0..ListRows}
    /\ posts = [i \in 1..MaxTasks |-> 0]
    /\ clock = 0
    /\ loop = [p \in {"server", "worker"} |-> Asleep]
    /\ cancel = [pc |-> "idle", id |-> 0]
    /\ reply = [ok |-> TRUE, code |-> 0]

ListNext ==
    \/ api_tasks_list
    \/ \E task_id \in 1..MaxTasks : api_tasks_cancel_select(task_id)
    \/ api_tasks_cancel_update

ListSpec == ListInit /\ [][ListNext]_vars

(***************************************************************************)
(* One scheduler at a time: the web process takes requests and either      *)
(* scheduler runs, server.py's thread or worker.py, the one starting an     *)
(* iteration only while the other sleeps.  Requests may leave blog_id out. *)
(***************************************************************************)
OneLoopRequests ==
    [platform : {None}, blog_id : {<<"B1">>, None}, blog_url : {None},
     title : {<<"T">>}, html : {<<"H">>},
     run_at : {<<"2026-01-01T00:00:00Z">>, <<"2026-01-01T00:00:01Z">>}]

OneLoop ==
    \/ loop["worker"].pc = "sleep" /\ ServerLoop
    \/ loop["server"].pc = "sleep" /\ WorkerLoop

OneLoopNext ==
    \/ \E data \in OneLoopRequests : api_tasks_add(data)
    \/ Tick
    \/ OneLoop

OneLoopSpec == Init /\ [][OneLoopNext]_vars

(***************************************************************************)
(* worker.py alone beside the web process (TASK_WORKER=0), with run_at     *)
(* texts of the far future among the requests.                             *)
(***************************************************************************)
WorkerRequests ==
    [platform : {None}, blog_id : {<<"B1">>}, blog_url : {None},
     title : {<<"T">>}, html : {<<"H">>},
     run_at : {<<"2026-01-01T00:00:00Z">>, <<"9999-12-31T23:59:59-05:00">>}]

WorkerNext ==
    \/ \E data \in WorkerRequests : api_tasks_add(data)
    \/ Tick
    \/ WorkerLoop

WorkerSpec == Init /\ [][WorkerNext]_vars

(***************************************************************************)
(* Exceptions inside an iteration.  Both loops wrap the whole iteration in *)
(* `try: ... except Exception:`; the handler passes (server.py) or prints  *)
(* (worker.py), and the loop sleeps and starts over.  What raises here:    *)
(* the store while polling, the construction of the Blogger client, and    *)
(* the store when the outcome is written.                                  *)
(***************************************************************************)
\* db_conn() or the SELECT of the pending rows raises sqlite3.Error
worker_loop_select_raises ==
    /\ loop["server"].pc = "sleep"
    /\ loop' = [loop EXCEPT !["server"].pc = "except"]
    /\ UNCHANGED <<tasks, posts, clock, cancel, reply>>

\* blogger_service() raises in run_task_publish, before its try: build(...)
\* fails
worker_loop_build_raises ==
    LET me == loop["server"] IN
    /\ me.pc = "execute"
    /\ me.rows[me.idx].platform = <<"blogspot">>
    /\ loop' = [loop EXCEPT !["server"].pc = "except"]
    /\ UNCHANGED <<tasks, posts, clock, cancel, reply>>

\* the UPDATE of the outcome, or its commit, raises sqlite3.Error
worker_loop_finish_raises ==
    /\ loop["server"].pc = "finish"
    /\ loop' = [loop EXCEPT !["server"].pc = "except"]
    /\ UNCHANGED <<tasks, posts, clock, cancel, reply>>

\* the handler that marks every pending row err before the loop sleeps
worker_loop_except_failing ==
    /\ loop["server"].pc = "except"
    /\ tasks' = [i \in Ids |->
                    IF tasks[i].status = "pending"
                    THEN [tasks[i] EXCEPT !.status = "err", !.error = "store error"]
                    ELSE tasks[i]]
    /\ loop' = [loop EXCEPT !["server"] = Asleep]
    /\ UNCHANGED <<posts, clock, cancel, reply>>

\* `except Exception: pass`, then time.sleep(...) and the next iteration
worker_loop_except ==
    /\ loop["server"].pc = "except"
    /\ loop' = [loop EXCEPT !["server"] = Asleep]
    /\ UNCHANGED <<tasks, posts, clock, cancel, reply>>

\* db(), fetch_due_tasks(...) or get_blogger_client() raises
main_fetch_raises ==
    /\ loop["worker"].pc = "sleep"
    /\ loop' = [loop EXCEPT !["worker"].pc = "except"]
    /\ UNCHANGED <<tasks, posts, clock, cancel, reply>>

\* `except Exception as e: print(...)`, then time.sleep(10) and the next
\* iteration
main_except ==
    /\ loop["worker"].pc = "except"
    /\ loop' = [loop EXCEPT !["worker"] = Asleep]
    /\ UNCHANGED <<tasks, posts, clock, cancel, reply>>

ServerFault ==
    \/ worker_loop_select_raises
    \/ worker_loop_build_raises
    \/ worker_loop_finish_raises
    \/ worker_loop_except

WorkerFault ==
    \/ main_fetch_raises
    \/ main_except

FaultNext ==
    \/ \E data \in Requests : api_tasks_add(data)
    \/ Tick
    \/ OneLoop
    \/ loop["worker"].pc = "sleep" /\ ServerFault
    \/ loop["server"].pc = "sleep" /\ WorkerFault

FaultSpec == Init /\ [][FaultNext]_vars

(***************************************************************************)
(* Crashes.  The process of a scheduler dies in the middle of an iteration *)
(* and is started again: the loop's local variables are lost, the table    *)
(* stays as it was.                                                        *)
(***************************************************************************)
Crash(p) ==
    /\ loop[p].pc # "sleep"
    /\ loop' = [loop EXCEPT ![p] = Asleep]
    /\ UNCHANGED <<tasks, posts, clock, cancel, reply>>

CrashNext ==
    \/ \E data \in Requests : api_tasks_add(data)
    \/ Tick
    \/ OneLoop
    \/ \E p \in {"server", "worker"} : Crash(p)

CrashSpec == Init /\ [][CrashNext]_vars

(***************************************************************************)
(* Every operation on the table together: add, cancel and list requests    *)
(* to the web process and the two schedulers, one of them at a time, all   *)
(* within one second of the clock.                                         *)
(***************************************************************************)
FrameRequests ==
    [platform : {None}, blog_id : {<<"B1">>}, blog_url : {None},
     title : {<<"T">>}, html : {<<"H">>}, run_at : {<<"2026-01-01T00:00:00Z">>}]

FrameNext ==
    \/ \E data \in FrameRequests : api_tasks_add(data)
    \/ \E task_id \in 1..MaxTasks : api_tasks_cancel_select(task_id)
    \/ api_tasks_cancel_update
    \/ api_tasks_list
    \/ OneLoop

FrameSpec == Init /\ [][FrameNext]_vars

(***************************************************************************)
(* A Publisher call that does not return.  run_task_publish calls          *)
(* posts().insert(...).execute() on the loop's own thread and sets no      *)
(* deadline for it: while the call hangs the thread stands in it.  The     *)
(* web process with its worker_loop thread, the thread's steps weakly      *)
(* fair.                                                                   *)
(***************************************************************************)
worker_loop_execute_hangs ==
    LET me == loop["server"]
        r == me.rows[me.idx]
    IN
    /\ me.pc = "execute"
    /\ r.platform = <<"blogspot">>
    /\ r.blog_id # <<>>
    /\ posts' = Insert(r.id)
    /\ loop' = [loop EXCEPT !["server"].pc = "hung"]
    /\ UNCHANGED <<tasks, clock, cancel, reply>>

HangNext ==
    \/ \E data \in Requests : api_tasks_add(data)
    \/ Tick
    \/ ServerLoop
    \/ worker_loop_execute_hangs

HangSpec == Init /\ [][HangNext]_vars /\ WF_vars(ServerLoop \/ worker_loop_execute_hangs)

(***************************************************************************)
(* server.py's loop before a backlog: the table starts with n pending rows *)
(* scheduled for the far future, as api_tasks_add stored them, and after   *)
(* them one row that is due.  The loop's steps are weakly fair.            *)
(***************************************************************************)
MaxBacklog == 11

\* row i as api_tasks_add stored it at 2026-01-01T00:00:00Z
BacklogRow(i, run_at) ==
    [id |-> i, platform |-> <<"blogspot">>, blog_id |-> <<"B1">>,
     blog_url |-> <<>>, title |-> <<"T">>, html |-> <<"H">>,
     run_at |-> run_at, status |-> "pending",
     created_at |-> "2026-01-01T00:00:00Z", updated_at |-> "2026-01-01T00:00:00Z",
     result_url |-> NULL, error |-> NULL]

BacklogInit ==
    /\ tasks \in {[i \in 1..(n + 1) |->
                     BacklogRow(i, IF i <= n THEN <<"9999-12-31T23:59:59-05:00">>
                                             ELSE <<"2026-01-01T00:00:00Z">>)] :
                   n \in 0..MaxBacklog}
    /\ posts = [i \in 1..(MaxBacklog + 1) |-> 0]
    /\ clock = 0
    /\ loop = [p \in {"server", "worker"} |-> Asleep]
    /\ cancel = [pc |-> "idle", id |-> 0]
    /\ reply = [ok |-> TRUE, code |-> 0]

BacklogNext ==
    \/ Tick
    \/ ServerLoop

BacklogSpec == BacklogInit /\ [][BacklogNext]_vars /\ WF_vars(ServerLoop)

(***************************************************************************)
(* Tasks for other platforms: api_tasks_add stores whatever platform the   *)
(* request names.  Either scheduler runs, one at a time.                   *)
(***************************************************************************)
PlatformRequests ==
    [platform : {None, <<"tistory">>}, blog_id : {<<"B1">>}, blog_url : {None},
     title : {<<"T">>}, html : {<<"H">>}, run_at : {<<"2026-01-01T00:00:00Z">>}]

PlatformNext ==
    \/ \E data \in PlatformRequests : api_tasks_add(data)
    \/ Tick
    \/ OneLoop

PlatformSpec == Init /\ [][PlatformNext]_vars

(***************************************************************************)
(* Vocabulary of the properties.                                           *)
(***************************************************************************)
Loops == {"server", "worker"}

\* the step is a step of a scheduler loop (every such step moves the loop)
LoopStep == loop' # loop

\* loop p marks task i running in this step
MarksRunning(p, i) ==
    /\ loop[p].pc = "for"
    /\ loop'[p].pc = "execute"
    /\ loop[p].rows[loop[p].idx].id = i

\* the step is the UPDATE of api_tasks_cancel
CancelUpdateStep == cancel.pc = "update" /\ cancel'.pc = "idle"

\* the instant a stored run_at denotes
Instant(run_at) == worker_parse_iso(run_at).inst

IsSet(v) == v # NULL /\ v # ""

\* row j of loop p's batch was found due and run in the current iteration
Ran(p, j) ==
    LET r == loop[p].rows[j] IN
    IF p = "server"
    THEN ParseRaises(r.run_at)
         \/ (parse_iso(r.run_at).aware /\ parse_iso(r.run_at).inst <= loop[p].now_dt)
    ELSE r.blog_id # <<>> /\ r.title # <<>> /\ r.html # <<>>

(***************************************************************************)
(* C1.  No double execution: the Publisher is invoked at most once for     *)
(* every task, in every interleaving of the two scheduler loops.           *)
(***************************************************************************)
C1_NoDoubleExecution == \A i \in 1..MaxTasks : posts[i] <= 1

(***************************************************************************)
(* C2.  Eligibility: whenever a loop marks a task running, the task's      *)
(* stored status is pending at that moment and its run_at is not after the *)
(* current time.                                                           *)
(***************************************************************************)
C2_Eligibility ==
    [][\A p \in Loops : \A i \in Ids :
          MarksRunning(p, i) =>
              /\ tasks[i].status = "pending"
              /\ Instant(tasks[i].run_at) <= clock]_vars

(***************************************************************************)
(* C3.  Cancellation safety: the only status change api_tasks_cancel ever  *)
(* makes is pending -> canceled; it never changes the status of a task     *)
(* that is running, ok, err or canceled.                                   *)
(***************************************************************************)
C3_CancellationSafety ==
    [][CancelUpdateStep =>
          \A i \in Ids :
              tasks'[i].status # tasks[i].status =>
                  tasks[i].status = "pending" /\ tasks'[i].status = "canceled"]_vars

(***************************************************************************)
(* C4.  Once a task's stored status is canceled, no step of a scheduler    *)
(* loop changes its status, result_url or error, and the Publisher is not  *)
(* invoked for it.                                                         *)
(***************************************************************************)
C4_CanceledIsPermanent ==
    [][\A i \in Ids :
          (tasks[i].status = "canceled" /\ LoopStep) =>
              /\ tasks'[i].status = "canceled"
              /\ tasks'[i].result_url = tasks[i].result_url
              /\ tasks'[i].error = tasks[i].error
              /\ posts'[i] = posts[i]]_vars

(***************************************************************************)
(* C5.  Terminal exclusivity and write-once: an ok task has result_url set *)
(* and error unset, an err task has error set and result_url unset, and no *)
(* step of a scheduler loop overwrites the status, result_url or error of  *)
(* a task that is already ok or err.                                       *)
(***************************************************************************)
TerminalExclusive ==
    \A i \in Ids :
        /\ tasks[i].status = "ok" =>
               IsSet(tasks[i].result_url) /\ ~IsSet(tasks[i].error)
        /\ tasks[i].status = "err" =>
               IsSet(tasks[i].error) /\ ~IsSet(tasks[i].result_url)

C5_TerminalWriteOnce ==
    /\ []TerminalExclusive
    /\ [][\A i \in Ids :
             (tasks[i].status \in {"ok", "err"} /\ LoopStep) =>
                 /\ tasks'[i].status = tasks[i].status
                 /\ tasks'[i].result_url = tasks[i].result_url
                 /\ tasks'[i].error = tasks[i].error]_vars

(***************************************************************************)
(* C6.  Ordering within a batch: a task a loop is executing has a run_at   *)
(* not before that of every task the loop executed earlier in the same     *)
(* iteration, and a larger id when the run_at are equal.                   *)
(***************************************************************************)
C6_BatchOrder ==
    \A p \in Loops :
        loop[p].pc \in {"execute", "finish"} =>
            \A j \in 1..(loop[p].idx - 1) :
                Ran(p, j) =>
                    LET a == loop[p].rows[j]
                        b == loop[p].rows[loop[p].idx]
                    IN  \/ Instant(a.run_at) < Instant(b.run_at)
                        \/ Instant(a.run_at) = Instant(b.run_at) /\ a.id < b.id

(***************************************************************************)
(* C7.  Status lifecycle: the only status transitions are pending ->       *)
(* running, running -> ok, running -> err and pending -> canceled; ok, err *)
(* and canceled are never left.                                            *)
(***************************************************************************)
Lifecycle ==
    {<<"pending", "running">>, <<"running", "ok">>, <<"running", "err">>,
     <<"pending", "canceled">>}

C7_Lifecycle ==
    [][\A i \in Ids :
          tasks'[i].status # tasks[i].status =>
              <<tasks[i].status, tasks'[i].status>> \in Lifecycle]_vars

(***************************************************************************)
(* C8.  Admission validation: a request whose blog_id, title, html or      *)
(* run_at is empty after trimming, or whose run_at does not parse, is      *)
(* answered with a validation error and leaves the table unchanged.        *)
(***************************************************************************)
Blank(v) == Strip(Or(v, <<>>)) = <<>>

Invalid(data) ==
    \/ Blank(data.blog_id)
    \/ Blank(data.title)
    \/ Blank(data.html)
    \/ Blank(data.run_at)
    \/ ParseRaises(data.run_at)

InvalidForAdd(data) ==
    \/ Blank(data.title)
    \/ Blank(data.html)
    \/ Blank(data.run_at)
    \/ ParseRaises(data.run_at)

C9_SuccessfulAdmission ==
    [][\A data \in ApiRequests :
          (api_tasks_add(data) /\ reply'.ok) =>
              /\ Len(tasks') = Len(tasks) + 1
              /\ \A i \in Ids : tasks'[i] = tasks[i]
              /\ LET t == tasks'[Len(tasks')] IN
                    /\ t.status = "pending"
                    /\ t.result_url = NULL
                    /\ t.error = NULL
                    /\ t.created_at = t.updated_at
                    /\ t.created_at = utc_now_iso
                    /\ reply'.id = t.id
                    /\ \A i \in Ids : tasks[i].id # t.id
                    /\ \E k \in 1..Len(ListItems') :
                          /\ ListItems'[k].id = reply'.id
                          /\ ListItems'[k].status = "pending"]_vars

\* a second row has just been accepted beside a canceled first one
C9_Witness ==
    /\ Len(tasks) = 2
    /\ reply = Ok(2)
    /\ tasks[2].status = "pending"
    /\ tasks[1].status = "canceled"

(***************************************************************************)
(* C10.  Eventual execution: while the scheduler loop keeps running and    *)
(* the Publisher always returns, every pending task whose run_at is not    *)
(* after the current time eventually is ok or err, unless it is canceled;  *)
(* and a task for which the Publisher returned url u is finished as ok     *)
(* with result_url = u.                                                    *)
(***************************************************************************)
DuePending(i) ==
    /\ i \in Ids
    /\ tasks[i].status = "pending"
    /\ Instant(tasks[i].run_at) <= clock

Settled(i) == i \in Ids /\ tasks[i].status \in {"ok", "err", "canceled"}

C10_EventualExecution ==
    /\ \A i \in 1..MaxTasks : [](DuePending(i) => <>Settled(i))
    /\ [][\A p \in Loops :
             (loop[p].pc = "finish" /\ loop'[p].pc = "for" /\ loop[p].res[1]) =>
                 LET id == loop[p].rows[loop[p].idx].id IN
                 /\ tasks'[id].status = "ok"
                 /\ tasks'[id].result_url = loop[p].res[2]]_vars

(***************************************************************************)
(* C11.  Publish failure is absorbed: whenever posts().insert raised for   *)
(* the task a loop is running, the loop's next step finishes that task as  *)
(* err with a non-empty error and an empty result_url, and the loop goes   *)
(* on to the next row of its batch.                                        *)
(***************************************************************************)
\* what the loop holds as the outcome when posts().insert raised
RaiseOutcomes(p) ==
    {IF p = "server" THEN <<FALSE, "", "Blogger post error: " \o resp.msg>>
                     ELSE <<FALSE, "", resp.msg>> :
        resp \in {x \in Responses : x.kind = "raise"}}

PublishFailed(p) == loop[p].pc = "finish" /\ loop[p].res \in RaiseOutcomes(p)

C12_CancelNonCancelable ==
    [][\A task_id \in 1..MaxTasks :
          (/\ api_tasks_cancel_select(task_id)
           /\ (task_id \notin Ids \/ tasks[task_id].status # "pending")) =>
              /\ ~reply'.ok
              /\ reply'.code = IF task_id \in Ids THEN 400 ELSE 404
              /\ cancel' = cancel
              /\ tasks' = tasks]_vars

\* a cancel has just been refused while the table holds a task that is ok
\* and one that is canceled, and none that is pending
C12_Witness ==
    /\ reply = Err(400, "only pending can be canceled")
    /\ Len(tasks) = 2
    /\ \E i, j \in Ids : tasks[i].status = "ok" /\ tasks[j].status = "canceled"

(***************************************************************************)
(* C13.  A task whose stored run_at a loop cannot parse is never eligible: *)
(* no step of that loop changes its status or invokes the Publisher for    *)
(* it.                                                                     *)
(***************************************************************************)
\* loop p's parse_iso raises on the stored text
Unparseable(p, run_at) ==
    IF p = "server" THEN ParseRaises(run_at) ELSE worker_parse_raises(run_at)

C13_UnparseableNeverEligible ==
    [][\A p \in Loops : \A i \in Ids :
          (Unparseable(p, tasks[i].run_at) /\ loop'[p] # loop[p]) =>
              /\ tasks'[i].status = tasks[i].status
              /\ posts'[i] = posts[i]]_vars

(***************************************************************************)
(* C14.  Placement of result_url and error: in every state and for every   *)
(* task, result_url is set only if the status is ok and error is set only  *)
(* if the status is err.                                                   *)
(***************************************************************************)
C14_OutcomePlacement ==
    \A i \in Ids :
        /\ IsSet(tasks[i].result_url) => tasks[i].status = "ok"
        /\ IsSet(tasks[i].error) => tasks[i].status = "err"

(***************************************************************************)
(* C15.  Store failures while polling do not stop the loop and do not fail *)
(* tasks: the step in which the connect or the SELECT raises changes no    *)
(* task, the handler that absorbs the exception changes no task, and after *)
(* it the loop sleeps as after any iteration, its next step being the next *)
(* poll.                                                                   *)
(***************************************************************************)
\* loop p is in its except clause and fetched no rows in this iteration
PollFailed(p) == loop[p].pc = "except" /\ loop[p].rows = <<>>

C15_StoreFailureAbsorbed ==
    [][\A p \in Loops :
          /\ (loop[p].pc = "sleep" /\ loop'[p].pc = "except") =>
                 tasks' = tasks /\ posts' = posts
          /\ (PollFailed(p) /\ loop'[p] # loop[p]) =>
                 /\ tasks' = tasks
                 /\ posts' = posts
                 /\ loop'[p] = Asleep]_vars

\* server.py's poll has just failed while the table holds a pending task
\* beside a finished one
C15_Witness ==
    /\ PollFailed("server")
    /\ \E i, j \in Ids : tasks[i].status = "pending" /\ tasks[j].status = "ok"

(***************************************************************************)
(* C16.  Listing: api_tasks_list returns tasks of the table in strictly    *)
(* descending id order, at most 200 of them, the ones with the highest ids *)
(* when the table holds more, and changes no task.                         *)
(***************************************************************************)
C16_Listing ==
    [][api_tasks_list =>
          LET items == reply'.items
              n == Len(items)
          IN  /\ tasks' = tasks
              /\ n <= ListLimit
              /\ n = ListLimit \/ n = Len(tasks)
              /\ \A k \in 1..n : /\ items[k].id \in Ids
                                  /\ items[k] = Item(tasks[items[k].id])
              /\ \A k \in 1..(n - 1) : items[k].id > items[k + 1].id
              /\ \A i \in Ids :
                    (\E k \in 1..n : items[k].id = i) <=> i > Len(tasks) - n]_vars

\* the listing of a table of 201 rows, the first of them canceled: 200
\* items, from id 201 down to id 2
C16_Witness ==
    /\ Len(tasks) = ListLimit + 1
    /\ tasks[1].status = "canceled"
    /\ "items" \in DOMAIN reply
    /\ Len(reply.items) = ListLimit
    /\ reply.items[1].id = ListLimit + 1
    /\ reply.items[ListLimit].id = 2

(***************************************************************************)
(* C17.  Finish only from running: every step that takes a task's status   *)
(* to ok or err finds the stored status running; none writes ok or err     *)
(* onto a pending or a canceled task.                                      *)
(***************************************************************************)
C17_FinishOnlyFromRunning ==
    [][\A i \in Ids :
          (/\ tasks'[i].status \in {"ok", "err"}
           /\ tasks'[i].status # tasks[i].status) =>
              tasks[i].status = "running"]_vars

(***************************************************************************)
(* C18.  No task is left running by a live loop: when a loop that has not  *)
(* crashed ends an iteration, whatever raised in it, no task of the batch  *)
(* it worked on is still running.                                          *)
(***************************************************************************)
C18_NoTaskLeftRunning ==
    [][\A p \in Loops :
          (loop[p].pc # "sleep" /\ loop'[p].pc = "sleep") =>
              \A j \in 1..Len(loop[p].rows) :
                  tasks'[loop[p].rows[j].id].status # "running"]_vars

(***************************************************************************)
(* C19.  No automatic recovery of running tasks: a task that is running    *)
(* while no loop holds it in its batch (the loop that marked it crashed)   *)
(* stays so in every step: its row does not change, no scan selects it,    *)
(* and the Publisher is not invoked for it.                                *)
(***************************************************************************)
\* task i is among the rows loop p fetched for its current iteration
Holds(p, i) == \E j \in 1..Len(loop[p].rows) : loop[p].rows[j].id = i

Orphan(i) == tasks[i].status = "running" /\ \A p \in Loops : ~Holds(p, i)

EmptyField(r) == Blank(r.blog_id) \/ Blank(r.title) \/ Blank(r.html)

\* loop p is between marking task i running and writing its outcome
InFlight(p, i) ==
    /\ loop[p].pc \in {"execute", "finish"}
    /\ loop[p].rows[loop[p].idx].id = i

\* loop p leaves the current row of its batch behind in this step
DoneWithRow(p) ==
    /\ loop[p].pc \in {"for", "noauth", "finish"}
    /\ loop[p].idx <= Len(loop[p].rows)
    /\ loop'[p].pc \in {"for", "noauth"}
    /\ loop'[p].idx = loop[p].idx + 1

FrameFields(r) ==
    <<r.id, r.platform, r.blog_id, r.blog_url, r.title, r.html, r.run_at,
      r.created_at>>

C21_Frame ==
    [][/\ Len(tasks') >= Len(tasks)
       /\ \A i \in Ids : FrameFields(tasks'[i]) = FrameFields(tasks[i])]_vars

\* the table has been listed after task 1 was published and finished as ok
\* and task 2 was canceled
C21_Witness ==
    /\ Len(tasks) = 2
    /\ posts[1] = 1
    /\ "items" \in DOMAIN reply
    /\ Len(reply.items) = 2
    /\ reply.items[2].status = "ok"
    /\ reply.items[1].status = "canceled"

(***************************************************************************)
(* C22.  A Publisher call that never returns does not wedge the loop:      *)
(* while the call for one task hangs, every other pending task whose       *)
(* run_at is not after the current time still eventually is ok or err.     *)
(***************************************************************************)
\* loop p stands in a Publisher call, made for a task other than i
HungOnOther(p, i) ==
    loop[p].pc = "hung" /\ loop[p].rows[loop[p].idx].id # i

Executed(i) == i \in Ids /\ tasks[i].status \in {"ok", "err"}

C22_HangDoesNotWedge ==
    \A i \in 1..MaxTasks :
        (DuePending(i) /\ HungOnOther("server", i)) ~> Executed(i)

(***************************************************************************)
(* C23.  Task ids are unique and strictly increasing in creation order:    *)
(* of two rows the one created later has the larger id, and the id an      *)
(* accepted add returns is the new row's and is greater than the id of     *)
(* every row created before, whatever steps of the loops and of cancel     *)
(* requests come in between.                                               *)
(***************************************************************************)
C23_IdsIncrease ==
    /\ [](\A i, j \in Ids : i < j => tasks[i].id < tasks[j].id)
    /\ [][\A data \in FrameRequests :
             (api_tasks_add(data) /\ reply'.ok) =>
                 /\ reply'.id = tasks'[Len(tasks')].id
                 /\ \A i \in Ids : tasks[i].id < reply'.id]_vars

\* the second add has just been accepted while server.py's loop is in the
\* middle of publishing the first task
C23_Witness ==
    /\ reply = Ok(2)
    /\ Len(tasks) = 2
    /\ tasks[1].status = "running"
    /\ loop["server"].pc = "execute"

(***************************************************************************)
(* C24.  No head-of-line blocking in server.py's worker_loop: a pending    *)
(* task whose run_at is not after the current time eventually is ok or     *)
(* err, however many pending tasks with smaller ids are scheduled for the  *)
(* future.  Stated of the newest row of the table, the one the earlier     *)
(* rows could hide.                                                        *)
(***************************************************************************)
C24_NoHeadOfLineBlocking ==
    DuePending(Len(tasks)) ~> Executed(Len(tasks))

(***************************************************************************)
(* C25.  No poison task in server.py's worker_loop: a pending task whose   *)
(* run_at carries no timezone offset does not keep the other tasks from    *)
(* being executed; every other pending task whose run_at is not after the  *)
(* current time still eventually is ok or err, unless it is canceled.      *)
(***************************************************************************)
\* task j is pending with a run_at that parse_iso reads as a naive datetime
NaivePending(j) ==
    /\ j \in Ids
    /\ tasks[j].status = "pending"
    /\ ~parse_iso(tasks[j].run_at).aware

C25_NoPoisonTask ==
    \A i \in 1..MaxTasks :
        (/\ DuePending(i)
         /\ parse_iso(tasks[i].run_at).aware
         /\ \E j \in Ids : NaivePending(j)) ~> Settled(i)

(***************************************************************************)
(* C26.  The two schedulers agree on unsupported platforms: for a task     *)
(* whose platform is not blogspot the Publisher is never invoked and the   *)
(* status is never ok, and when either loop is done with such a task the   *)
(* task is err.                                                            *)
(***************************************************************************)
Unsupported(r) == r.platform # <<"blogspot">>

C26_PlatformAgreement ==
    /\ [](\A i \in Ids :
             Unsupported(tasks[i]) => posts[i] = 0 /\ tasks[i].status # "ok")
    /\ [][\A p \in Loops :
             (DoneWithRow(p) /\ Unsupported(loop[p].rows[loop[p].idx])) =>
                 tasks'[loop[p].rows[loop[p].idx].id].status = "err"]_vars

====
